---- MODULE Spec2Model ----
(***************************************************************************)
(* Model of flutter_cpp_bridge/service_helpers.h: the service state        *)
(* (fcb::ServiceBase), its two containers (fcb::Queue, fcb::CurrentValue)  *)
(* and the five symbols generated by FCB_EXPORT_SYMBOLS, driven by the     *)
(* documented worker loop, a Dart-side caller thread and the registered    *)
(* notification callback.                                                   *)
(***************************************************************************)
EXTENDS Integers, Sequences, FiniteSets

\* ---- bounds of the model ----
MaxWorkers == 2      \* producer threads that can be alive at the same time
MaxPush == 2         \* productions (push / set calls) in one behaviour
MaxAddr == 2         \* distinct element addresses the allocator hands out

\* ---- values ----
NULL == 0            \* nullptr
NoOwner == 0         \* mtx is not held
SlotAddr == 1        \* &_val, the address of the single slot of CurrentValue
Cb == 1              \* the registered callback (a non-null function pointer)

Workers == 1..MaxWorkers
Addrs == 1..MaxAddr
Callbacks == {Cb}
Variants == {"Queue", "CurrentValue"}

VARIABLES
    variant,      \* the type of svc: fcb::Queue<T> or fcb::CurrentValue<T>
    mtx,          \* ServiceBase::mtx: NoOwner or the thread holding it
    stop_flag,    \* ServiceBase::stop_flag
    notify_cb,    \* ServiceBase::notify_cb: NULL or a callback
    _q,           \* Queue::_q: sequence of [addr, msg], front first
    _val,         \* CurrentValue::_val
    _ready,       \* CurrentValue::_ready
    pc,           \* position of each worker thread ("none": no such thread)
    msg,          \* worker local: the message handed to push / set
    cbv,          \* worker local: the callback pointer tested / invoked in notify()
    cbp,          \* worker local: the pointer the callback got from next()
    held,         \* Dart thread: the pointer last returned by get_next_message()
    heldFor,      \* history: the value of the slot (liba: the message) that held
                  \*          identified when next() returned it (0: none, or the Dart
                  \*          thread has freed it since)
    nextId,       \* history: number of the next production (messages are numbered)
    got,          \* history: messages the Dart thread obtained by next() and released
    solo,         \* history: one producer and one next-then-release consumer so far
    lastSet,      \* history: the value of the most recent set()
    setSinceRel,  \* history: a set() happened since the last release()
    owed,         \* history: push/set calls entered since the callback was registered,
                  \*          less the callback invocations those calls made
    fresh,        \* history: workers whose running call entered since registration
                  \*          and has not invoked the callback yet
    disturbed,    \* history: workers between their mutation and their callback's
                  \*          next() that a release() has run in between
    started,      \* history: start_service was called and stop_service not since
    misuse,       \* history: some start_service came with no stop since the one before
    restarted,    \* history: the latest start_service came after a stop_service, with
                  \*          the stopped producer gone after producing, and no
                  \*          stop_service has been called since
    stopId        \* history: the number of the next production at the stop_service
                  \*          that set the stop flag (0 while the flag is clear)

base == <<variant, mtx, stop_flag, notify_cb>>
cont == <<_q, _val, _ready>>
wrk == <<pc, msg, cbv, cbp>>
drt == <<held, heldFor>>
hist == <<nextId, got, solo, lastSet, setSinceRel, owed, fresh, disturbed,
          started, misuse, restarted, stopId>>
vars == <<base, cont, wrk, drt, hist>>


\* ---- pure helpers: the container operations ----

\* Mutant of stopped: the flag is never seen set.
stoppedNever(flag) == FALSE

\* ServiceBase::stopped(): a load of the stop flag.
stopped(flag) == flag

\* Mutant of QueueNext: the address of the back element.
QueueNextBack(q) == IF q = <<>> THEN NULL ELSE q[Len(q)].addr

\* Queue::next(): the address of the front element, nullptr when empty.
QueueNext(q) == IF q = <<>> THEN NULL ELSE q[1].addr

\* The message stored at address p (0 when p is no element of q).
MsgAt(q, p) ==
    IF \E i \in 1..Len(q) : q[i].addr = p
    THEN LET i == CHOOSE j \in 1..Len(q) : q[j].addr = p IN q[i].msg
    ELSE 0

LiveAddrs(q) == {q[i].addr : i \in 1..Len(q)}
Msgs(q) == {q[i].msg : i \in 1..Len(q)}

\* Mutant of PushBack: a contiguous container that inserts by moving every element
\* one place up, so each address gets the content of the one before it.
PushBackMoving(q, a, m) ==
    [i \in 1..(Len(q) + 1) |->
        [addr |-> IF i <= Len(q) THEN q[i].addr ELSE a,
         msg  |-> IF i = 1 THEN m ELSE q[i-1].msg]]

\* std::deque::push_back: the new element gets storage no live element occupies;
\* every other element stays where it is.
PushBack(q, a, m) == Append(q, [addr |-> a, msg |-> m])

\* The addresses push_back can place a new element at: storage no live element
\* occupies. Addresses nothing refers to are interchangeable, so the choice is between
\* each free address some caller still holds a pointer to and the lowest other one.
AllocChoices(q, refs) ==
    LET free == Addrs \ LiveAddrs(q)
        other == free \ refs
    IN  (free \cap refs) \cup {a \in other : \A b \in other : a <= b}

\* The scan of Queue::release: index of the first element whose address is p, 0 if none.
Find(q, p) ==
    IF \E i \in 1..Len(q) : q[i].addr = p
    THEN CHOOSE i \in 1..Len(q) : q[i].addr = p /\ \A j \in 1..(i-1) : q[j].addr # p
    ELSE 0

\* std::deque::erase of element k. Erasing the first or the last element leaves the
\* others in place; erasing in the middle moves either the elements before k one
\* place towards the back ("front": the first address is given up) or the elements
\* after k one place towards the front ("back": the last address is given up).
EraseSides(q, k) ==
    IF k = Len(q) THEN {"back"}
    ELSE IF k = 1 THEN {"front"}
    ELSE {"front", "back"}

Erase(q, k, side) ==
    [i \in 1..(Len(q) - 1) |->
        [addr |-> IF side = "front" THEN q[i+1].addr ELSE q[i].addr,
         msg  |-> IF i < k THEN q[i].msg ELSE q[i+1].msg]]

\* Mutant of QueueRelease: a matching release empties the whole queue.
QueueReleaseAll(q, p, side) == IF Find(q, p) = 0 THEN q ELSE <<>>

\* Mutant of QueueRelease: the pointer is ignored and the front element is popped.
QueueReleaseFront(q, p, side) == IF q = <<>> THEN q ELSE Tail(q)

\* Queue::release(p): erase the element at address p, if any.
QueueRelease(q, p, side) ==
    IF Find(q, p) = 0 THEN q ELSE Erase(q, Find(q, p), side)

ReleaseSides(q, p) ==
    IF Find(q, p) = 0 THEN {"back"} ELSE EraseSides(q, Find(q, p))

\* Mutant of CurrentValueSet: a value not yet released is not overwritten.
CurrentValueSetKeep(val, ready, v) == <<IF ready THEN val ELSE v, TRUE>>

\* CurrentValue::set(val): the slot and the ready flag after the locked block.
CurrentValueSet(val, ready, v) == <<v, TRUE>>

\* CurrentValue::next(): the address of the slot when ready.
CurrentValueNext(ready) == IF ready THEN SlotAddr ELSE NULL

\* Mutant of CurrentValueRelease: only the address of the slot releases it.
CurrentValueReleaseMatching(ready, p) == IF p = SlotAddr THEN FALSE ELSE ready

\* CurrentValue::release(p): the ready flag afterwards (p is ignored).
CurrentValueRelease(ready, p) == FALSE

\* get_next_message(): (svc).next()
NextPtr ==
    IF variant = "Queue" THEN QueueNext(_q) ELSE CurrentValueNext(_ready)

\* The value a caller of fcb::CurrentValue reads through pointer p: the content of
\* the slot when p is its address (0 otherwise).
Deref(p) ==
    IF variant = "CurrentValue" /\ p = SlotAddr THEN _val ELSE 0

\* The pointers callers hold: the Dart thread's and the running callbacks'.
Pointers == {held} \cup {cbp[t] : t \in Workers}

\* A call through a null function pointer has ended the process.
Crashed == \E t \in Workers : pc[t] = "crashed"
\* The producer threads that exist.
AliveWorkers == IF Crashed THEN {} ELSE {t \in Workers : pc[t] # "none"}

\* Positions of a worker inside push()/set() before the callback is invoked.
PreInvoke == {"push_lock", "push_back", "set_lock", "set_body", "notify", "call_cb"}
\* Positions between the mutation and the callback's own next().
PrePoll == {"notify", "call_cb", "cb_next"}
\* Positions of a worker inside notify() and the callback.
InNotify == {"notify", "call_cb", "cb_next", "cb_rel"}

InFlight == Cardinality({t \in Workers : pc[t] \in {"push_lock", "push_back"}})

Init ==
    /\ variant \in Variants
    /\ mtx = NoOwner
    /\ stop_flag = FALSE
    /\ notify_cb = NULL
    /\ _q = <<>>
    /\ _val = 0
    /\ _ready = FALSE
    /\ pc = [t \in Workers |-> "none"]
    /\ msg = [t \in Workers |-> 0]
    /\ cbv = [t \in Workers |-> NULL]
    /\ cbp = [t \in Workers |-> NULL]
    /\ held = NULL
    /\ heldFor = 0
    /\ nextId = 1
    /\ got = <<>>
    /\ solo = TRUE
    /\ lastSet = 0
    /\ setSinceRel = FALSE
    /\ owed = 0
    /\ fresh = {}
    /\ disturbed = {}
    /\ started = FALSE
    /\ misuse = FALSE
    /\ restarted = FALSE
    /\ stopId = 0


\* ---- the five exported symbols (FCB_EXPORT_SYMBOLS) ----

\* Mutant of StartService: a thread is launched in every free slot.
StartServiceAll ==
    /\ \E t \in Workers : pc[t] = "none"
    /\ pc' = [t \in Workers |-> IF pc[t] = "none" THEN "loop" ELSE pc[t]]
    /\ stop_flag' = FALSE
    /\ started' = TRUE
    /\ misuse' = (misuse \/ started)
    /\ restarted' = (stop_flag /\ AliveWorkers = {} /\ nextId > 1)
    /\ stopId' = 0
    /\ solo' = FALSE
    /\ got' = <<>>
    /\ UNCHANGED <<variant, mtx, notify_cb, cont, msg, cbv, cbp, drt>>
    /\ UNCHANGED <<nextId, lastSet, setSinceRel, owed, fresh, disturbed>>

\* Mutant of StartService: the stop flag is left as it is.
StartServiceNoClear ==
    /\ \E t \in Workers :
        /\ pc[t] = "none"
        /\ \A u \in 1..(t-1) : pc[u] # "none"
        /\ pc' = [pc EXCEPT ![t] = "loop"]
    /\ started' = TRUE
    /\ misuse' = (misuse \/ started)
    /\ restarted' = (stop_flag /\ AliveWorkers = {} /\ nextId > 1)
    /\ UNCHANGED stopId
    /\ solo' = (solo /\ AliveWorkers = {})
    /\ got' = IF solo' THEN got ELSE <<>>
    /\ UNCHANGED <<variant, mtx, stop_flag, notify_cb, cont, msg, cbv, cbp, drt>>
    /\ UNCHANGED <<nextId, lastSet, setSinceRel, owed, fresh, disturbed>>

\* start_service(): clear the stop flag and launch a detached worker thread.
StartService ==
    /\ \E t \in Workers :
        /\ pc[t] = "none"
        /\ \A u \in 1..(t-1) : pc[u] # "none"
        /\ pc' = [pc EXCEPT ![t] = "loop"]
    /\ stop_flag' = FALSE
    /\ started' = TRUE
    /\ misuse' = (misuse \/ started)
    /\ restarted' = (stop_flag /\ AliveWorkers = {} /\ nextId > 1)
    /\ stopId' = 0
    /\ solo' = (solo /\ AliveWorkers = {})
    /\ got' = IF solo' THEN got ELSE <<>>
    /\ UNCHANGED <<variant, mtx, notify_cb, cont, msg, cbv, cbp, drt>>
    /\ UNCHANGED <<nextId, lastSet, setSinceRel, owed, fresh, disturbed>>

\* Mutant of StopService: stopping also empties the container.
StopServiceClearing ==
    /\ stop_flag' = TRUE
    /\ started' = FALSE
    /\ _q' = <<>>
    /\ _ready' = FALSE
    /\ UNCHANGED <<variant, mtx, notify_cb, _val, wrk, drt>>
    /\ stopId' = IF stop_flag THEN stopId ELSE nextId
    /\ restarted' = FALSE
    /\ UNCHANGED <<nextId, got, solo, lastSet, setSinceRel, owed, fresh, disturbed, misuse>>

\* stop_service(): set the stop flag.
StopService ==
    /\ stop_flag' = TRUE
    /\ started' = FALSE
    /\ stopId' = IF stop_flag THEN stopId ELSE nextId
    /\ restarted' = FALSE
    /\ UNCHANGED misuse
    /\ UNCHANGED <<variant, mtx, notify_cb, cont, wrk, drt>>
    /\ UNCHANGED <<nextId, got, solo, lastSet, setSinceRel, owed, fresh,
                   disturbed>>

\* set_message_callback(cb): store the pointer (no lock is taken).
SetMessageCallback(cb) ==
    /\ notify_cb' = cb
    /\ owed' = 0
    /\ fresh' = {}
    /\ UNCHANGED <<variant, mtx, stop_flag, cont, wrk, drt>>
    /\ UNCHANGED <<nextId, got, solo, lastSet, setSinceRel, disturbed, started, misuse, restarted, stopId>>

\* Mutant of GetNextMessage: a consuming read, next() takes the value out.
GetNextMessageConsuming ==
    /\ mtx = NoOwner
    /\ held' = NextPtr
    /\ heldFor' = Deref(NextPtr)
    /\ _ready' = FALSE
    /\ _q' = IF _q = <<>> THEN _q ELSE Tail(_q)
    /\ UNCHANGED <<base, _val, wrk>>
    /\ UNCHANGED <<nextId, got, solo, lastSet, setSinceRel, owed, fresh, disturbed,
                   started, misuse, restarted, stopId>>

\* get_next_message() on the Dart thread: (svc).next(), the whole of it under
\* lock_guard, so it runs when no worker is inside a locked block.
GetNextMessage ==
    /\ mtx = NoOwner
    /\ held' = NextPtr
    /\ heldFor' = Deref(NextPtr)
    /\ UNCHANGED <<base, cont, wrk>>
    /\ UNCHANGED <<nextId, got, solo, lastSet, setSinceRel, owed, fresh, disturbed,
                   started, misuse, restarted, stopId>>

\* What release(p) does to the container, whoever calls it.
ReleaseBody(p) ==
    /\ IF variant = "Queue"
       THEN /\ \E side \in ReleaseSides(_q, p) : _q' = QueueRelease(_q, p, side)
            /\ UNCHANGED <<_val, _ready, setSinceRel>>
       ELSE /\ _ready' = CurrentValueRelease(_ready, p)
            /\ setSinceRel' = FALSE
            /\ UNCHANGED <<_q, _val>>
    /\ disturbed' = disturbed \cup {t \in Workers : pc[t] \in PrePoll}

\* free_message(p) on the Dart thread: (svc).release(p), the whole of it under
\* lock_guard. The Dart side forgets a pointer it has freed.
FreeMessage(p) ==
    /\ mtx = NoOwner
    /\ ReleaseBody(p)
    /\ IF p = held /\ held # NULL
       THEN /\ held' = NULL
            /\ heldFor' = 0
            /\ got' = IF variant = "Queue" /\ solo THEN Append(got, MsgAt(_q, p)) ELSE got
            /\ UNCHANGED solo
       ELSE /\ solo' = (solo /\ variant # "Queue")
            /\ got' = IF solo' THEN got ELSE <<>>
            /\ UNCHANGED <<held, heldFor>>
    /\ UNCHANGED <<base, wrk>>
    /\ UNCHANGED <<nextId, lastSet, owed, fresh, started, misuse, restarted, stopId>>

\* ---- the worker thread: while (!svc.stopped()) { svc.push / svc.set; sleep } ----

\* The loop test finds the stop flag set: the worker returns and the thread ends.
WorkerExit(t) ==
    /\ pc[t] = "loop"
    /\ stopped(stop_flag)
    /\ pc' = [pc EXCEPT ![t] = "none"]
    /\ UNCHANGED stopId
    /\ UNCHANGED <<base, cont, msg, cbv, cbp, drt>>
    /\ UNCHANGED <<nextId, got, solo, lastSet, setSinceRel, owed, fresh, disturbed,
                   started, misuse, restarted>>

\* The loop test finds the flag clear: the worker builds message number nextId and
\* enters push() / set().
WorkerProduce(t) ==
    /\ pc[t] = "loop"
    /\ ~stopped(stop_flag)
    /\ nextId <= MaxPush
    /\ variant = "Queue" => Len(_q) + InFlight < MaxAddr
    /\ pc' = [pc EXCEPT ![t] = IF variant = "Queue" THEN "push_lock" ELSE "set_lock"]
    /\ msg' = [msg EXCEPT ![t] = nextId]
    /\ nextId' = nextId + 1
    /\ IF notify_cb # NULL
       THEN owed' = owed + 1 /\ fresh' = fresh \cup {t}
       ELSE UNCHANGED <<owed, fresh>>
    /\ UNCHANGED <<base, cont, cbv, cbp, drt>>
    /\ UNCHANGED <<got, solo, lastSet, setSinceRel, disturbed, started, misuse, restarted, stopId>>

\* Queue::push: lock_guard lk(mtx)
QueuePushLock(t) ==
    /\ pc[t] = "push_lock"
    /\ mtx = NoOwner
    /\ mtx' = t
    /\ pc' = [pc EXCEPT ![t] = "push_back"]
    /\ UNCHANGED <<variant, stop_flag, notify_cb, cont, msg, cbv, cbp, drt, hist>>

\* Mutant of QueuePushBack: the locked block extends over notify().
QueuePushBackLocked(t) ==
    /\ pc[t] = "push_back"
    /\ mtx = t
    /\ \E a \in AllocChoices(_q, Pointers) : _q' = PushBack(_q, a, msg[t])
    /\ pc' = [pc EXCEPT ![t] = "notify"]
    /\ msg' = [msg EXCEPT ![t] = 0]
    /\ disturbed' = disturbed \ {t}
    /\ UNCHANGED stopId
    /\ UNCHANGED <<base, _val, _ready, cbv, cbp, drt>>
    /\ UNCHANGED <<nextId, got, solo, lastSet, setSinceRel, owed, fresh, started, misuse, restarted>>

\* Queue::push: _q.push_back(std::move(msg)) and the end of the locked block.
QueuePushBack(t) ==
    /\ pc[t] = "push_back"
    /\ mtx = t
    /\ \E a \in AllocChoices(_q, Pointers) : _q' = PushBack(_q, a, msg[t])
    /\ mtx' = NoOwner
    /\ pc' = [pc EXCEPT ![t] = "notify"]
    /\ msg' = [msg EXCEPT ![t] = 0]
    /\ disturbed' = disturbed \ {t}
    /\ UNCHANGED stopId
    /\ UNCHANGED <<variant, stop_flag, notify_cb, _val, _ready, cbv, cbp, drt>>
    /\ UNCHANGED <<nextId, got, solo, lastSet, setSinceRel, owed, fresh,
                   started, misuse, restarted>>

\* CurrentValue::set: lock_guard lk(mtx)
CurrentValueSetLock(t) ==
    /\ pc[t] = "set_lock"
    /\ mtx = NoOwner
    /\ mtx' = t
    /\ pc' = [pc EXCEPT ![t] = "set_body"]
    /\ UNCHANGED <<variant, stop_flag, notify_cb, cont, msg, cbv, cbp, drt, hist>>

\* CurrentValue::set: _val = std::move(val); _ready = true; end of the locked block.
CurrentValueSetBody(t) ==
    /\ pc[t] = "set_body"
    /\ mtx = t
    /\ _val' = CurrentValueSet(_val, _ready, msg[t])[1]
    /\ _ready' = CurrentValueSet(_val, _ready, msg[t])[2]
    /\ lastSet' = msg[t]
    /\ setSinceRel' = TRUE
    /\ mtx' = NoOwner
    /\ pc' = [pc EXCEPT ![t] = "notify"]
    /\ msg' = [msg EXCEPT ![t] = 0]
    /\ disturbed' = disturbed \ {t}
    /\ UNCHANGED stopId
    /\ UNCHANGED <<variant, stop_flag, notify_cb, _q, cbv, cbp, drt>>
    /\ UNCHANGED <<nextId, got, solo, owed, fresh, started, misuse, restarted>>

\* Mutant of Notify: push()/set() returns without calling the callback.
NotifySkip(t) ==
    /\ pc[t] = "notify"
    /\ pc' = [pc EXCEPT ![t] = "sleep"]
    /\ UNCHANGED <<base, cont, msg, cbv, cbp, drt, hist>>

\* ServiceBase::notify(): the test `if (notify_cb)`. With no callback push()/set()
\* returns and the worker goes to sleep.
Notify(t) ==
    /\ pc[t] = "notify"
    /\ IF notify_cb = NULL
       THEN /\ pc' = [pc EXCEPT ![t] = "sleep"]
            /\ UNCHANGED <<cbv, disturbed>>
       ELSE /\ pc' = [pc EXCEPT ![t] = "call_cb"]
            /\ cbv' = [cbv EXCEPT ![t] = notify_cb]
            /\ UNCHANGED disturbed
    /\ UNCHANGED <<base, cont, msg, cbp, drt>>
    /\ UNCHANGED <<nextId, got, solo, lastSet, setSinceRel, owed, fresh,
                   started, misuse, restarted, stopId>>

\* ServiceBase::notify(): the call `notify_cb()`. notify_cb is a plain pointer that
\* set_message_callback writes without the lock: the call uses the value the test
\* loaded or a value loaded again. Calling a null pointer ends the process.
CallCb(t) ==
    /\ pc[t] = "call_cb"
    /\ \E f \in {cbv[t], notify_cb} :
        IF f = NULL
        THEN /\ pc' = [pc EXCEPT ![t] = "crashed"]
             /\ UNCHANGED <<cbv, owed>>
        ELSE /\ pc' = [pc EXCEPT ![t] = "cb_next"]
             /\ cbv' = [cbv EXCEPT ![t] = f]
             /\ owed' = IF t \in fresh THEN owed - 1 ELSE owed
    /\ fresh' = fresh \ {t}
    /\ UNCHANGED <<base, cont, msg, cbp, drt>>
    /\ UNCHANGED <<nextId, got, solo, lastSet, setSinceRel, disturbed, started, misuse, restarted, stopId>>

\* The callback calls get_next_message(). It then either returns or goes on to free
\* the (non-null) pointer it got.
CbNext(t) ==
    /\ pc[t] = "cb_next"
    /\ mtx = NoOwner
    /\ \E then \in IF NextPtr # NULL THEN {"cb_rel", "sleep"} ELSE {"sleep"} :
        /\ pc' = [pc EXCEPT ![t] = then]
        /\ cbp' = [cbp EXCEPT ![t] = IF then = "cb_rel" THEN NextPtr ELSE NULL]
        /\ cbv' = [cbv EXCEPT ![t] = IF then = "cb_rel" THEN cbv[t] ELSE NULL]
    /\ disturbed' = disturbed \ {t}
    /\ UNCHANGED <<base, cont, msg, drt>>
    /\ UNCHANGED <<nextId, got, solo, lastSet, setSinceRel, owed, fresh, started, misuse, restarted, stopId>>

\* The callback calls free_message(p) and returns; notify() and push()/set() return.
CbRelease(t) ==
    /\ pc[t] = "cb_rel"
    /\ mtx = NoOwner
    /\ ReleaseBody(cbp[t])
    /\ solo' = (solo /\ variant # "Queue")
    /\ got' = IF solo' THEN got ELSE <<>>
    /\ pc' = [pc EXCEPT ![t] = "sleep"]
    /\ cbp' = [cbp EXCEPT ![t] = NULL]
    /\ cbv' = [cbv EXCEPT ![t] = NULL]
    /\ UNCHANGED <<base, msg, drt>>
    /\ UNCHANGED <<nextId, lastSet, owed, fresh, started, misuse, restarted, stopId>>

\* std::this_thread::sleep_for(...) ends; back to the loop test.
Sleep(t) ==
    /\ pc[t] = "sleep"
    /\ pc' = [pc EXCEPT ![t] = "loop"]
    /\ UNCHANGED <<base, cont, msg, cbv, cbp, drt, hist>>

WorkerStep(t) ==
    \/ WorkerExit(t)
    \/ WorkerProduce(t)
    \/ QueuePushLock(t)
    \/ QueuePushBack(t)
    \/ CurrentValueSetLock(t)
    \/ CurrentValueSetBody(t)
    \/ Notify(t)
    \/ CallCb(t)
    \/ CbNext(t)
    \/ CbRelease(t)
    \/ Sleep(t)

Next ==
    /\ ~Crashed
    /\ \/ StartService
       \/ StopService
       \/ \E cb \in {NULL} \cup Callbacks : SetMessageCallback(cb)
       \/ GetNextMessage
       \/ \E p \in {NULL} \cup Addrs : FreeMessage(p)
       \/ \E t \in Workers : WorkerStep(t)

Spec == Init /\ [][Next]_vars

\* Scheduling: a started thread keeps running.
FairSpec ==
    /\ Spec
    /\ \A t \in Workers : WF_vars(WorkerStep(t))

\* Scheduling for a consumer that keeps polling: the Dart thread keeps calling
\* get_next_message() and keeps freeing the pointer it got.
ConsumerStep == held # NULL /\ FreeMessage(held)

FairConsumerSpec ==
    /\ FairSpec
    /\ WF_vars(GetNextMessage)
    /\ WF_vars(ConsumerStep)

TypeOK ==
    /\ variant \in Variants
    /\ mtx \in {NoOwner} \cup Workers
    /\ stop_flag \in BOOLEAN
    /\ notify_cb \in {NULL} \cup Callbacks
    /\ Len(_q) <= MaxAddr
    /\ Cardinality(LiveAddrs(_q)) = Len(_q)
    /\ _ready \in BOOLEAN
    /\ nextId \in 1..(MaxPush + 1)


\* ======================= the hand-written services =======================
\* example/linux/liba (pooled, a std::vector) and example/linux/libb (latest value)
\* export the same five symbols without the helpers. They are modelled over the same
\* variables: _q is liba's `queue`, _val / _ready are libb's `ret` / g_message_ready,
\* mtx is queue_mutex, stop_flag is stop_thread and notify_cb is g_callback.

HandVariants == {"liba", "libb"}

\* Storage of the vector: two blocks of MaxAddr consecutive element addresses.
VecBlocks == {0, 1}
HandAddrs == 1..(Cardinality(VecBlocks) * MaxAddr)
VecAddr(b, i) == b * MaxAddr + i
VecBlock(q) == (q[1].addr - 1) \div MaxAddr

IsPow2(n) == \E k \in 0..n : 2^k = n

\* The blocks the vector can be in after push_back. A vector whose size equals its
\* capacity moves to a new block; the capacity doubles on growth and never shrinks, so
\* this can be the case exactly at sizes 1, 2, 4, ...; an empty vector has its
\* buffer, if any, in either block.
VecPushBlocks(q) ==
    IF q = <<>> \/ IsPow2(Len(q)) THEN VecBlocks ELSE {VecBlock(q)}

\* std::vector::push_back into block b: the elements are consecutive from the start
\* of the block, the new one last.
VecPushBack(q, m, b) ==
    [i \in 1..(Len(q) + 1) |->
        [addr |-> VecAddr(b, i),
         msg  |-> IF i <= Len(q) THEN q[i].msg ELSE m]]

\* std::vector::erase of element k: the elements after k move one place down.
VecErase(q, k) ==
    [i \in 1..(Len(q) - 1) |->
        [addr |-> q[i].addr,
         msg  |-> IF i < k THEN q[i].msg ELSE q[i+1].msg]]

\* liba free_message(p): erase the first element whose address is p, if any.
LibaRelease(q, p) ==
    IF Find(q, p) = 0 THEN q ELSE VecErase(q, Find(q, p))

\* get_next_message(): &queue.front() or nullptr (liba); &ret when ready (libb).
LibNextPtr ==
    IF variant = "liba" THEN QueueNext(_q) ELSE CurrentValueNext(_ready)

\* What a caller reads through p: the element at p (liba get_hexa_color);
\* ret.message whatever non-null p is (libb get_text).
LibDeref(p) ==
    IF variant = "liba" THEN MsgAt(_q, p)
    ELSE IF p # NULL THEN _val ELSE 0

InitHand ==
    /\ variant \in HandVariants
    /\ mtx = NoOwner
    /\ stop_flag = FALSE
    /\ notify_cb = NULL
    /\ _q = <<>>
    /\ _val = 0
    /\ _ready = FALSE
    /\ pc = [t \in Workers |-> "none"]
    /\ msg = [t \in Workers |-> 0]
    /\ cbv = [t \in Workers |-> NULL]
    /\ cbp = [t \in Workers |-> NULL]
    /\ held = NULL
    /\ heldFor = 0
    /\ nextId = 1
    /\ got = <<>>
    /\ solo = TRUE
    /\ lastSet = 0
    /\ setSinceRel = FALSE
    /\ owed = 0
    /\ fresh = {}
    /\ disturbed = {}
    /\ started = FALSE
    /\ misuse = FALSE
    /\ restarted = FALSE
    /\ stopId = 0

\* start_service(): launch a detached thread; stop_thread is not written.
LibStartService ==
    /\ \E t \in Workers :
        /\ pc[t] = "none"
        /\ \A u \in 1..(t-1) : pc[u] # "none"
        /\ pc' = [pc EXCEPT ![t] = "loop"]
    /\ started' = TRUE
    /\ misuse' = (misuse \/ started)
    /\ restarted' = (stop_flag /\ AliveWorkers = {} /\ nextId > 1)
    /\ UNCHANGED stopId
    /\ solo' = (solo /\ AliveWorkers = {})
    /\ UNCHANGED <<base, cont, msg, cbv, cbp, drt>>
    /\ UNCHANGED <<nextId, got, lastSet, setSinceRel, owed, fresh, disturbed>>

\* get_next_message(), the whole of it under lock_guard.
LibGetNextMessage ==
    /\ mtx = NoOwner
    /\ held' = LibNextPtr
    /\ heldFor' = LibDeref(LibNextPtr)
    /\ UNCHANGED <<base, cont, wrk, hist>>

\* What free_message(p) does to the queue / the ready flag, whoever calls it.
LibReleaseBody(p) ==
    IF variant = "liba"
    THEN /\ _q' = LibaRelease(_q, p)
         /\ UNCHANGED <<_val, _ready, setSinceRel>>
    ELSE /\ _ready' = FALSE
         /\ setSinceRel' = FALSE
         /\ UNCHANGED <<_q, _val>>

\* free_message(p) on the Dart thread, the whole of it under lock_guard. The Dart
\* side keeps the pointer value; heldFor records that it has freed it.
LibFreeMessage(p) ==
    /\ mtx = NoOwner
    /\ LibReleaseBody(p)
    /\ heldFor' = IF p = held THEN 0 ELSE heldFor
    /\ UNCHANGED held
    /\ UNCHANGED <<base, wrk>>
    /\ UNCHANGED <<nextId, got, solo, lastSet, owed, fresh, disturbed, started, misuse,
                   restarted, stopId>>

\* while (!stop_thread): the flag is clear; the worker builds message number nextId.
LibProduce(t) ==
    /\ pc[t] = "loop"
    /\ ~stopped(stop_flag)
    /\ nextId <= MaxPush
    /\ variant = "liba" => Len(_q) + InFlight < MaxAddr
    /\ pc' = [pc EXCEPT ![t] = IF variant = "liba" THEN "push_lock" ELSE "set_lock"]
    /\ msg' = [msg EXCEPT ![t] = nextId]
    /\ nextId' = nextId + 1
    /\ UNCHANGED <<base, cont, cbv, cbp, drt>>
    /\ UNCHANGED <<got, solo, lastSet, setSinceRel, owed, fresh, disturbed, started,
                   misuse, restarted, stopId>>

\* liba: queue.push_back(msg) and the end of the locked block.
LibaPushBack(t) ==
    /\ pc[t] = "push_back"
    /\ mtx = t
    /\ \E b \in VecPushBlocks(_q) : _q' = VecPushBack(_q, msg[t], b)
    /\ mtx' = NoOwner
    /\ pc' = [pc EXCEPT ![t] = "notify"]
    /\ msg' = [msg EXCEPT ![t] = 0]
    /\ UNCHANGED stopId
    /\ UNCHANGED <<variant, stop_flag, notify_cb, _val, _ready, cbv, cbp, drt>>
    /\ UNCHANGED <<nextId, got, solo, lastSet, setSinceRel, owed, fresh, disturbed,
                   started, misuse, restarted>>

\* The callback calls get_next_message(); it then returns or goes on to free the
\* (non-null) pointer it got.
LibCbNext(t) ==
    /\ pc[t] = "cb_next"
    /\ mtx = NoOwner
    /\ \E then \in IF LibNextPtr # NULL THEN {"cb_rel", "sleep"} ELSE {"sleep"} :
        /\ pc' = [pc EXCEPT ![t] = then]
        /\ cbp' = [cbp EXCEPT ![t] = IF then = "cb_rel" THEN LibNextPtr ELSE NULL]
        /\ cbv' = [cbv EXCEPT ![t] = IF then = "cb_rel" THEN cbv[t] ELSE NULL]
    /\ UNCHANGED <<base, cont, msg, drt, hist>>

\* The callback calls free_message(p) and returns.
LibCbRelease(t) ==
    /\ pc[t] = "cb_rel"
    /\ mtx = NoOwner
    /\ LibReleaseBody(cbp[t])
    /\ pc' = [pc EXCEPT ![t] = "sleep"]
    /\ cbp' = [cbp EXCEPT ![t] = NULL]
    /\ cbv' = [cbv EXCEPT ![t] = NULL]
    /\ UNCHANGED <<base, msg, drt>>
    /\ UNCHANGED <<nextId, got, solo, lastSet, owed, fresh, disturbed, started, misuse,
                   restarted, stopId>>

\* The populate thread. The lock, the slot write of libb, the test and the call of
\* g_callback, the sleep and the loop exit are the steps of the helper's worker.
LibWorkerStep(t) ==
    \/ WorkerExit(t)
    \/ LibProduce(t)
    \/ QueuePushLock(t)
    \/ LibaPushBack(t)
    \/ CurrentValueSetLock(t)
    \/ CurrentValueSetBody(t)
    \/ Notify(t)
    \/ CallCb(t)
    \/ LibCbNext(t)
    \/ LibCbRelease(t)
    \/ Sleep(t)

NextHand ==
    /\ ~Crashed
    /\ \/ LibStartService
       \/ StopService
       \/ \E cb \in {NULL} \cup Callbacks : SetMessageCallback(cb)
       \/ LibGetNextMessage
       \/ \E p \in {NULL, held} : LibFreeMessage(p)
       \/ \E t \in Workers : LibWorkerStep(t)

SpecHand == InitHand /\ [][NextHand]_vars

FairSpecHand ==
    /\ SpecHand
    /\ \A t \in Workers : WF_vars(LibWorkerStep(t))

TypeOKHand ==
    /\ variant \in HandVariants
    /\ mtx \in {NoOwner} \cup Workers
    /\ Len(_q) <= MaxAddr
    /\ LiveAddrs(_q) \subseteq HandAddrs
    /\ \A i \in 1..Len(_q) : _q[i].addr = VecAddr(VecBlock(_q), i)
    /\ held \in {NULL} \cup HandAddrs


\* ======================= claims =======================

\* C1: FIFO order of fcb::Queue. With one producer and one consumer that alternates
\* next() and release() of the returned pointer, the messages the consumer obtains
\* are the pushed messages in push order, none skipped: the k-th message obtained is
\* message number k, and the queue holds the following ones in order.
FifoOrder ==
    (variant = "Queue" /\ solo) =>
        /\ \A i \in 1..Len(got) : got[i] = i
        /\ \A i \in 1..Len(_q) : _q[i].msg = Len(got) + i

FifoWitness ==
    /\ variant = "Queue"
    /\ solo
    /\ Len(got) >= 2
    /\ nextId > MaxPush

\* C2: pointer stability of fcb::Queue. A push_back leaves every element that is in
\* the queue at its address with its content, so a pointer returned by next() keeps
\* identifying the same message however many pushes follow.
PointerStability ==
    [][\A t \in Workers : QueuePushBack(t) =>
            /\ \A a \in LiveAddrs(_q) : MsgAt(_q', a) = MsgAt(_q, a)
            /\ (held \in LiveAddrs(_q) => QueueNext(_q') = QueueNext(_q))]_vars

PointerStabilityWitness ==
    /\ variant = "Queue"
    /\ Len(_q) >= 2
    /\ held = _q[1].addr
    /\ \E t \in Workers : pc[t] = "notify"

\* C3: release(p) of fcb::Queue with a pointer that is the address of no element
\* leaves the queue unchanged. Releasing the pointer next() returned removes that one
\* message and leaves no element at p, so a repeated release(p) removes nothing and
\* the released message is not returned again.
ReleaseNoMatch ==
    [][\A p \in {NULL} \cup Addrs :
            (variant = "Queue" /\ UNCHANGED <<pc, stop_flag, notify_cb, owed, fresh>>
                /\ FreeMessage(p)) =>
            /\ (p \notin LiveAddrs(_q) => _q' = _q)
            /\ (p # NULL /\ p = QueueNext(_q)) =>
                    /\ _q' = Tail(_q)
                    /\ p \notin LiveAddrs(_q')
                    /\ MsgAt(_q, p) \notin Msgs(_q')]_vars

ReleaseNoMatchWitness ==
    /\ variant = "Queue"
    /\ solo
    /\ Len(got) >= 1
    /\ held = NULL
    /\ _q # <<>>

\* C4: latest-value overwrite of fcb::CurrentValue. While no release has followed the
\* most recent set, next() returns the slot (not null) and the slot holds the value
\* of the most recent set, never an older one.
LatestValueOverwrite ==
    variant = "CurrentValue" =>
        /\ (setSinceRel => CurrentValueNext(_ready) = SlotAddr)
        /\ (CurrentValueNext(_ready) # NULL => _val = lastSet)

LatestValueWitness ==
    /\ variant = "CurrentValue"
    /\ lastSet >= 2
    /\ setSinceRel
    /\ held = SlotAddr
    /\ _val = lastSet

\* C5: presence cycle of fcb::CurrentValue. next() is null before any set, non-null
\* after a set and null after a release until the next set: it is non-null exactly
\* when a set has happened since the last release.
PresenceCycle ==
    variant = "CurrentValue" =>
        /\ (CurrentValueNext(_ready) # NULL) <=> setSinceRel
        /\ (lastSet = 0 => CurrentValueNext(_ready) = NULL)

PresenceCycleWitness ==
    /\ variant = "CurrentValue"
    /\ lastSet >= 1
    /\ ~setSinceRel
    /\ CurrentValueNext(_ready) = NULL
    /\ AliveWorkers = {}

\* C6 as stated: the notifier runs once per push/set made while it is registered,
\* and a notifier that calls next() at once gets a non-null result.
NotifierSeesItem ==
    [][\A t \in Workers : CbNext(t) => NextPtr # NULL]_vars

\* C6 as amended: while a notifier is registered, every push/set call entered since
\* its registration has invoked it exactly once by the time it is past notify(), and
\* only after its own mutation; a notifier that calls next() at once gets a non-null
\* result unless a release() ran between the mutation and that next().
NotifiedOnce ==
    notify_cb # NULL =>
        /\ owed = Cardinality(fresh)
        /\ \A t \in fresh : pc[t] \in PreInvoke

NotifierFiring ==
    /\ []NotifiedOnce
    /\ [][\A t \in Workers :
            /\ CallCb(t) => (pc'[t] = "cb_next" => msg[t] = 0)
            /\ (CbNext(t) /\ t \notin disturbed) => NextPtr # NULL]_vars

NotifierFiringWitness ==
    /\ notify_cb # NULL
    /\ owed = 0
    /\ nextId > MaxPush
    /\ \E t \in Workers : pc[t] = "cb_rel" /\ cbp[t] # NULL /\ t \notin disturbed

\* C7: stop_service changes the stop flag and nothing else of the service: the queue,
\* the slot, the ready flag and the notifier are as before, and next() returns what
\* it returned before.
StopKeepsState ==
    [][(StopService \/ (stop_flag' /\ ~stop_flag)) =>
            /\ UNCHANGED <<_q, _val, _ready, notify_cb, mtx>>
            /\ NextPtr' = NextPtr]_vars

StopKeepsStateWitness ==
    /\ variant = "Queue"
    /\ stop_flag
    /\ _q # <<>>
    /\ held = QueueNext(_q)
    /\ AliveWorkers = {}

\* C8 as stated: if every start_service comes when the service was never started or
\* stop_service was called since the last start, two producer threads never exist
\* at once.
OneProducerIfStopped ==
    ~misuse => Cardinality(AliveWorkers) <= 1

\* C8 as amended: the number of producer threads rises above one only in a
\* start_service call made while a producer thread still exists; so if every
\* start_service comes when no producer thread exists, there are never two.
OneProducerIfExited ==
    [][(Cardinality(AliveWorkers) <= 1 /\ ~(StartService /\ AliveWorkers # {}))
            => Cardinality(AliveWorkers') <= 1]_vars

OneProducerWitness ==
    /\ Cardinality(AliveWorkers) = 1
    /\ solo
    /\ started
    /\ nextId > MaxPush
    /\ \E t \in Workers : pc[t] = "loop"

\* C9: after stop_service, unless start_service is called again, every producer
\* thread ends under fair scheduling; and while no producer thread exists nothing is
\* pushed or set.
StopTakesEffect ==
    /\ (stop_flag /\ AliveWorkers # {}) ~> (AliveWorkers = {} \/ ~stop_flag)
    /\ [][AliveWorkers = {} =>
            (Len(_q') <= Len(_q) /\ _val' = _val /\ (_ready' => _ready))]_vars

StopTakesEffectWitness ==
    /\ stop_flag
    /\ AliveWorkers = {}
    /\ ~Crashed
    /\ nextId > 1

\* C10: a worker inside notify() or inside the callback does not own mtx (other than
\* within the callback's own next()/release(), which take and drop it), so the
\* callback's next() and release() can take the lock.
NotifyOutsideLock ==
    \A t \in Workers : pc[t] \in InNotify => mtx # t

NotifyOutsideLockWitness ==
    \E t \in Workers : pc[t] = "cb_rel" /\ cbp[t] # NULL /\ mtx = NoOwner

\* C11: pooled delivery of fcb::Queue is lossless. With one producer and a consumer
\* that keeps calling next() and frees each pointer it got (and nothing else), every
\* message handed to push() is eventually the one next() returned, as long as the
\* process lives; and a message leaves the queue only in a step in which the consumer
\* holds the pointer next() returned for it.
Returned(m) ==
    \/ held # NULL /\ MsgAt(_q, held) = m
    \/ \E i \in 1..Len(got) : got[i] = m

LosslessDelivery ==
    /\ \A m \in 1..MaxPush :
            (variant = "Queue" /\ solo /\ m < nextId) ~> (~solo \/ Crashed \/ Returned(m))
    /\ [][\A m \in Msgs(_q) \ Msgs(_q') :
            (variant = "Queue" /\ solo') => (held # NULL /\ MsgAt(_q, held) = m)]_vars

LosslessDeliveryWitness ==
    /\ variant = "Queue"
    /\ solo
    /\ ~Crashed
    /\ nextId > MaxPush
    /\ Len(got) = MaxPush
    /\ _q = <<>>

\* C12: the notifier can be replaced at any time, by a callback or by null, before
\* or after start and while a push/set is running: every notification calls the
\* callback registered before or after the replacement, or none, and never calls
\* through a null pointer.
NotifierReplaceable ==
    \A t \in Workers :
        /\ pc[t] # "crashed"
        /\ pc[t] \in {"cb_next", "cb_rel"} => cbv[t] \in Callbacks

\* C13: restart of a macro-generated service. start_service clears the stop flag and
\* launches one more producer thread, at its loop test, for which stopped() is false;
\* and after a start_service that followed a stop_service and the end of the stopped
\* producer, the next message is pushed / set (unless stop_service is called again or
\* the process ends first).
Room == variant = "Queue" => Len(_q) + InFlight < MaxAddr

Produced(n) == IF variant = "Queue" THEN n \in Msgs(_q) ELSE lastSet >= n

RestartWorks ==
    /\ [][StartService =>
            /\ ~stopped(stop_flag')
            /\ \E t \in Workers :
                /\ pc[t] = "none" /\ pc'[t] = "loop"
                /\ \A u \in Workers \ {t} : pc'[u] = pc[u]]_vars
    /\ \A n \in 1..MaxPush :
            (restarted /\ ~stop_flag /\ ~Crashed /\ nextId = n /\ Room)
                ~> (stop_flag \/ Crashed \/ Produced(n))

RestartWorksWitness ==
    /\ restarted
    /\ ~stop_flag
    /\ Produced(nextId - 1)
    /\ \E t \in Workers : AliveWorkers = {t} /\ pc[t] = "notify"

\* C14: stop latency is at most one production. From the stop_service call that sets
\* the flag on, as long as no start_service follows, no producer thread begins
\* another production: the number of the next production stays what it was at the
\* stop, and the only push / set still made is, per producer thread, the one whose
\* message was handed over before the stop.
StopLatency ==
    stop_flag =>
        /\ nextId = stopId
        /\ \A t \in Workers : msg[t] # 0 => msg[t] < stopId

StopLatencyWitness ==
    /\ stop_flag
    /\ nextId = stopId
    /\ \E t \in Workers : pc[t] \in {"push_back", "set_body"} /\ msg[t] = stopId - 1

\* C15: lock discipline. The queue, the slot, the ready flag and the notifier
\* reference are read and written only under mtx: a step that changes one of them is
\* taken by the thread that owns mtx or by a call that takes mtx itself, so never
\* while another thread owns it; and the worker loads the notifier reference only
\* as the owner of mtx.
LockDiscipline ==
    [][/\ cont' # cont =>
            \/ mtx = NoOwner
            \/ \E t \in Workers : mtx = t /\ pc[t] \in {"push_back", "set_body"}
                                          /\ pc'[t] # pc[t]
       /\ notify_cb' # notify_cb => mtx = NoOwner
       /\ \A t \in Workers : (Notify(t) \/ CallCb(t)) => mtx = t]_vars

\* C16: next() is an idempotent read. A step in which a caller obtains a pointer from
\* next() (the Dart thread's held changes to a non-null value, or a callback leaves
\* its next()) changes neither the queue, the slot, the ready flag, the stop flag nor
\* the notifier, returns what next() returns in the state it ran in, and leaves the
\* result of a following next() the same; for fcb::CurrentValue that result is the
\* address of the slot.
NextIdempotent ==
    [][/\ (GetNextMessage \/ (held' # held /\ held' # NULL)) =>
            /\ UNCHANGED <<_q, _val, _ready, stop_flag, notify_cb>>
            /\ held' = NextPtr
            /\ NextPtr' = NextPtr
            /\ (variant = "CurrentValue" /\ held' # NULL) => held' = SlotAddr
       /\ \A t \in Workers : (pc[t] = "cb_next" /\ pc'[t] # "cb_next") =>
            /\ UNCHANGED <<_q, _val, _ready, stop_flag, notify_cb>>
            /\ NextPtr' = NextPtr
            /\ cbp'[t] \in {NULL, NextPtr}]_vars

NextIdempotentWitness ==
    /\ variant = "CurrentValue"
    /\ held = SlotAddr
    /\ _ready
    /\ \E t \in Workers : pc[t] = "cb_rel" /\ cbp[t] = SlotAddr

\* C17: in liba a message leaves the queue only in a free_message(p) call whose p was
\* returned by get_next_message for that very message and has not been freed since
\* (so a repeated free_message(p) removes nothing more), and the pointer the Dart
\* thread holds keeps identifying the message it was returned for as long as that
\* message is in the queue, whatever the producer appends. (One producer thread.)
LibaRemovalByPointer ==
    [][(variant = "liba" /\ solo') =>
        /\ \A p \in {NULL, held} : LibFreeMessage(p) =>
                \A m \in Msgs(_q) \ Msgs(_q') : p = held /\ heldFor = m
        /\ (held' # NULL /\ heldFor' \in Msgs(_q')) => MsgAt(_q', held') = heldFor']_vars

\* C18: restart of liba / libb. A start_service that follows a stop_service and the
\* end of the stopped producer leaves the stop flag clear, and the producer it
\* launches does not end at its loop test as long as stop_service is not called
\* again, so it produces again.
LibRestartWorks ==
    [][/\ (LibStartService /\ restarted') => ~stopped(stop_flag')
       /\ \A t \in Workers :
            (restarted /\ started /\ pc[t] = "loop") => pc'[t] # "none"]_vars

\* C19: in the latest-value services the producer does not write the slot between a
\* next() that returned the slot address and the consumer's following release: no
\* slot write happens while the Dart thread holds the pointer, the slot is ready and
\* still holds the value the pointer was returned for. (One producer thread.)
SlotNotWrittenWhileHeld ==
    [][\A t \in Workers :
            (solo /\ pc[t] = "set_body" /\ pc'[t] # "set_body") =>
                ~(held = SlotAddr /\ heldFor # 0 /\ _ready /\ _val = heldFor)]_vars

\* C20: a release of fcb::CurrentValue hides only the value the consumer obtained from
\* its preceding next(): when the slot has been set again since that next(), the
\* newer value is still returned by next() after the release. (One producer thread.)
ReleaseHidesObtainedOnly ==
    [][(variant = "CurrentValue" /\ solo /\ held = SlotAddr /\ heldFor # 0 /\ FreeMessage(held)
            /\ _ready /\ _val # heldFor)
        => (CurrentValueNext(_ready') = SlotAddr /\ _val' = _val)]_vars

====
